---- MODULE Spec2Model ----
(***************************************************************************)
(* Model of the two scripts of the repository:                             *)
(*   scripts/github_projects_analyzer.py  (GitHubProjectsAnalyzer)         *)
(*   scripts/enhance_codebase.py          (CodebaseEnhancer)               *)
(* Python strings are TLA+ strings; `a in b' on strings is IsSub, on a     *)
(* list of labels it is membership.  A label list is modelled by the set   *)
(* of its elements: the code only ever asks `x in labels' or `any(...)'.   *)
(***************************************************************************)
EXTENDS Integers, Sequences, FiniteSets, TLC

VARIABLES
    \* ---- GitHubProjectsAnalyzer ----
    github_token,   \* self.github_token: "None", "" or a token
    repo,           \* self.repo
    now,            \* what datetime.now() returns during the run
    pc,             \* position inside analyze_projects
    status_code,    \* response.status_code (0: no response received)
    raised,         \* an exception reached the except clause of analyze_projects
    requests_made,  \* number of calls of requests.get
    issues,         \* response.json(), the list handed to analyze_issues
    idx,            \* loop position of `for issue in issues'
    analysis,       \* the dict analyze_issues builds
    result,         \* what analyze_projects returned
    \* ---- CodebaseEnhancer ----
    fs,               \* the workspace: path -> [content, mode]
    original,         \* the workspace as it was before the first run
    today,            \* the day get_current_date() last reported (index into Dates)
    epc,              \* position inside enhance_all_files
    runs,             \* how many times the script was started
    interrupted,      \* how many runs were killed between two files
    php_files,        \* list(self.workspace.glob("app/**/*.php"))
    config_files,     \* list(self.workspace.glob("config/*.php"))
    fidx,             \* loop position in php_files / config_files
    enhancement_log,  \* self.enhancement_log
    file_analysis,    \* self.file_analysis: set of [path, analysis]
    failed,           \* paths whose enhancement raised in this run
    writes,           \* write_text calls of this run: sequence of paths
    changes,          \* per path: how many write_text calls altered its bytes, over all runs
    context_map,      \* .ai-enhanced/docs/ai_context_map.json
    report            \* .ai-enhanced/reports/enhancement_report.json

avars == <<github_token, repo, now, pc, status_code, raised, requests_made,
           issues, idx, analysis, result>>

evars == <<fs, original, today, epc, runs, interrupted, php_files, config_files,
           fidx, enhancement_log, file_analysis, failed, writes, changes,
           context_map, report>>

vars == <<avars, evars>>

----------------------------------------------------------------------------
(* Bounds *)
MaxLabels == 2      \* labels on one issue of the wide issue universe
MaxIssues == 3      \* length of the issue lists built from IssuePool
MaxPhpFiles == 2    \* files under app/
MaxRuns == 2        \* starts of the enhancer script

None == "None"      \* Python's None where a string is expected

----------------------------------------------------------------------------
(* Python string primitives *)

\* s in t, for strings
IsSub(s, t) == \E i \in 0..(Len(t) - Len(s)) : SubSeq(t, i + 1, i + Len(s)) = s

\* the ASCII capitals and their lower-case forms
LowerMap ==
    [c \in {"A", "B", "C", "D", "E", "F", "G", "H", "I", "J", "K", "L", "M",
            "N", "O", "P", "Q", "R", "S", "T", "U", "V", "W", "X", "Y", "Z"} |->
        CASE c = "A" -> "a" [] c = "B" -> "b" [] c = "C" -> "c" [] c = "D" -> "d"
          [] c = "E" -> "e" [] c = "F" -> "f" [] c = "G" -> "g" [] c = "H" -> "h"
          [] c = "I" -> "i" [] c = "J" -> "j" [] c = "K" -> "k" [] c = "L" -> "l"
          [] c = "M" -> "m" [] c = "N" -> "n" [] c = "O" -> "o" [] c = "P" -> "p"
          [] c = "Q" -> "q" [] c = "R" -> "r" [] c = "S" -> "s" [] c = "T" -> "t"
          [] c = "U" -> "u" [] c = "V" -> "v" [] c = "W" -> "w" [] c = "X" -> "x"
          [] c = "Y" -> "y" [] c = "Z" -> "z"]

LowerChar(c) == IF c \in DOMAIN LowerMap THEN LowerMap[c] ELSE c

RECURSIVE Lower(_)
\* str.lower()
Lower(s) == IF Len(s) = 0 THEN ""
            ELSE LowerChar(SubSeq(s, 1, 1)) \o Lower(SubSeq(s, 2, Len(s)))

----------------------------------------------------------------------------
(* Issue records as the REST API returns them *)

\* issue.get('body', '') or ''  -- the body is a string of some length, null or absent
BodyLen(issue) == IF issue.body.kind = "str" THEN issue.body.len ELSE 0

\* issue.get('assignee') is truthy
HasAssignee(issue) == issue.assignee.kind = "dict"

\* [label['name'].lower() for label in issue.get('labels', [])]
LowerLabels(issue) == { Lower(l) : l \in issue.labels }

----------------------------------------------------------------------------
(* GitHubProjectsAnalyzer: the pure classifiers *)

blocking_labels == {"needs discussion", "blocked", "waiting for input"}
ai_ready_labels == {"good first issue", "help wanted", "bug", "ai-agent-ready"}

\* variant: the ready labels are consulted before the blocking ones
is_ai_ready_ReadyFirst(issue, labels) ==
    IF \E label \in ai_ready_labels : label \in labels THEN TRUE
    ELSE IF \E label \in blocking_labels : label \in labels THEN FALSE
    ELSE IF BodyLen(issue) > 100 THEN TRUE
    ELSE FALSE

\* variant: a body of exactly 100 characters qualifies
is_ai_ready_AtLeast100(issue, labels) ==
    IF \E label \in blocking_labels : label \in labels THEN FALSE
    ELSE IF \E label \in ai_ready_labels : label \in labels THEN TRUE
    ELSE IF BodyLen(issue) >= 100 THEN TRUE
    ELSE FALSE

is_ai_ready(issue, labels) ==
    IF \E label \in blocking_labels : label \in labels THEN FALSE
    ELSE IF \E label \in ai_ready_labels : label \in labels THEN TRUE
    ELSE IF BodyLen(issue) > 100 THEN TRUE
    ELSE FALSE

\* variant: a label counts only when it equals the priority name
extract_priority_Exact(labels) ==
    IF "high priority" \in labels \/ "critical" \in labels THEN "high"
    ELSE IF "medium priority" \in labels THEN "medium"
    ELSE IF "low priority" \in labels THEN "low"
    ELSE "medium"

extract_priority(labels) ==
    IF \E label \in labels : IsSub("high priority", label) \/ IsSub("critical", label)
        THEN "high"
    ELSE IF \E label \in labels : IsSub("medium priority", label) THEN "medium"
    ELSE IF \E label \in labels : IsSub("low priority", label) THEN "low"
    ELSE "medium"

extract_complexity(labels) ==
    IF \E label \in labels : IsSub("complexity-low", label) THEN "low"
    ELSE IF \E label \in labels : IsSub("complexity-medium", label) THEN "medium"
    ELSE IF \E label \in labels : IsSub("complexity-high", label) THEN "high"
    ELSE "unknown"

\* variant: complexity-medium is tested before complexity-low
ComplexityBonus_MediumFirst(labels) ==
    IF "complexity-medium" \in labels THEN 10
    ELSE IF "complexity-low" \in labels THEN 20
    ELSE 0

\* the `if ... elif ...' of lines 155-158
ComplexityBonus(labels) ==
    IF "complexity-low" \in labels THEN 20
    ELSE IF "complexity-medium" \in labels THEN 10
    ELSE 0

\* variant: no cap
Clamp_Off(score) == score

\* min(score, 100)
Clamp(score) == IF score < 100 THEN score ELSE 100

\* variant: the bug bonus is 10
calculate_readiness_score_Bug10(issue, labels) ==
    LET s0 == 50
        s1 == IF "good first issue" \in labels THEN s0 + 20 ELSE s0
        s2 == IF "ai-agent-ready" \in labels THEN s1 + 25 ELSE s1
        s3 == IF "bug" \in labels THEN s2 + 10 ELSE s2
        s4 == IF "enhancement" \in labels THEN s3 + 10 ELSE s3
        s5 == s4 + ComplexityBonus(labels)
        s6 == IF BodyLen(issue) > 200 THEN s5 + 15 ELSE s5
        s7 == IF ~HasAssignee(issue) THEN s6 + 10 ELSE s6
    IN  Clamp(s7)

calculate_readiness_score(issue, labels) ==
    LET s0 == 50
        s1 == IF "good first issue" \in labels THEN s0 + 20 ELSE s0
        s2 == IF "ai-agent-ready" \in labels THEN s1 + 25 ELSE s1
        s3 == IF "bug" \in labels THEN s2 + 15 ELSE s2
        s4 == IF "enhancement" \in labels THEN s3 + 10 ELSE s3
        s5 == s4 + ComplexityBonus(labels)
        s6 == IF BodyLen(issue) > 200 THEN s5 + 15 ELSE s5
        s7 == IF ~HasAssignee(issue) THEN s6 + 10 ELSE s6
    IN  Clamp(s7)

----------------------------------------------------------------------------
(* Inputs *)

LabelNames ==
    {"bug", "Blocked", "needs discussion", "waiting for input",
     "good first issue", "help wanted", "ai-agent-ready", "enhancement",
     "complexity-low", "complexity-medium", "complexity-high",
     "complexity-medium-high", "high priority", "medium priority",
     "low priority", "Critical", "docs", "Very Low Priority"}

\* the labels calculate_readiness_score looks at
ScoreLabels == {"good first issue", "ai-agent-ready", "bug", "enhancement",
                "complexity-low", "complexity-medium"}

LabelSets == {S \in SUBSET LabelNames : Cardinality(S) <= MaxLabels}
                 \cup SUBSET ScoreLabels

Bodies == {[kind |-> "missing", len |-> 0], [kind |-> "null", len |-> 0]}
              \cup {[kind |-> "str", len |-> n] : n \in {0, 100, 101, 200, 201}}

Assignees == {[kind |-> "missing", login |-> None], [kind |-> "null", login |-> None],
              [kind |-> "dict", login |-> "alice"]}

\* has_keys: the record carries 'number', 'title' and 'html_url'
MkIssue(n, ls, b, a, k) ==
    [number |-> n, title |-> "T", html_url |-> "U", labels |-> ls,
     body |-> b, assignee |-> a, has_keys |-> k]

\* every combination of labels, body and assignee, for one-issue responses
IssueUniverse == {MkIssue(1, ls, b, a, TRUE) : ls \in LabelSets, b \in Bodies, a \in Assignees}

Str(n) == [kind |-> "str", len |-> n]
NoOne  == [kind |-> "null", login |-> None]
Alice  == [kind |-> "dict", login |-> "alice"]

\* a few issues of every kind, for responses with several issues
IssuePool ==
    {MkIssue(1, {"bug", "ai-agent-ready"}, Str(0), NoOne, TRUE),
     MkIssue(2, {"enhancement"}, Str(201), NoOne, TRUE),
     MkIssue(3, {"needs discussion", "bug"}, Str(201), NoOne, TRUE),
     MkIssue(4, {"docs"}, Str(100), Alice, TRUE),
     MkIssue(5, {"help wanted", "low priority"}, Str(0), Alice, TRUE),
     MkIssue(6, {"Bug", "complexity-medium"}, Str(0), Alice, TRUE),
     MkIssue(7, {"bug"}, Str(0), NoOne, FALSE),
     MkIssue(8, {"docs"}, Str(0), NoOne, FALSE)}

RECURSIVE SeqsUpTo(_, _)
SeqsUpTo(S, n) ==
    IF n = 0 THEN {<<>>}
    ELSE LET shorter == SeqsUpTo(S, n - 1)
         IN  shorter \cup {Append(q, x) : q \in {r \in shorter : Len(r) = n - 1}, x \in S}

\* the issue lists a 200 response can carry
Payloads == SeqsUpTo(IssuePool, MaxIssues) \cup {<<i>> : i \in IssueUniverse}

\* response.status_code
StatusCodes == {200, 304, 401, 403, 404, 500}

----------------------------------------------------------------------------
(* GitHubProjectsAnalyzer.__init__ and detect_repository *)

\* \s, str.isspace
IsSpace(c) == c \in {" ", "\n", "\t", "\r", "\f"}

RECURSIVE LStrip(_)
LStrip(s) == IF Len(s) > 0 /\ IsSpace(SubSeq(s, 1, 1)) THEN LStrip(SubSeq(s, 2, Len(s))) ELSE s

RECURSIVE RStrip(_)
RStrip(s) == IF Len(s) > 0 /\ IsSpace(SubSeq(s, Len(s), Len(s)))
             THEN RStrip(SubSeq(s, 1, Len(s) - 1)) ELSE s

\* str.strip()
Strip(s) == RStrip(LStrip(s))

RECURSIVE Replace(_, _, _)
\* str.replace(old, new), old non-empty
Replace(s, old, new) ==
    IF Len(s) < Len(old) THEN s
    ELSE IF SubSeq(s, 1, Len(old)) = old
         THEN new \o Replace(SubSeq(s, Len(old) + 1, Len(s)), old, new)
         ELSE SubSeq(s, 1, 1) \o Replace(SubSeq(s, 2, Len(s)), old, new)

RECURSIVE Split(_, _)
\* str.split(sep) for a one-character separator
Split(s, sep) ==
    LET hits == {i \in 1..Len(s) : SubSeq(s, i, i) = sep}
    IN  IF hits = {} THEN <<s>>
        ELSE LET i == CHOOSE h \in hits : \A k \in hits : h <= k
             IN  <<SubSeq(s, 1, i - 1)>> \o Split(SubSeq(s, i + 1, Len(s)), sep)

DefaultRepo == "otpplus/securify"

\* git: what subprocess.run(['git','remote','get-url','origin']) did
detect_repository(git) ==
    IF git.kind = "exception" THEN DefaultRepo
    ELSE IF git.returncode = 0
         THEN LET url == Strip(git.stdout)
              IN  IF IsSub("github.com", url)
                  THEN LET parts == Split(Replace(url, ".git", ""), "/")
                       IN  IF Len(parts) < 2 THEN DefaultRepo   \* IndexError, swallowed
                           ELSE parts[Len(parts) - 1] \o "/" \o parts[Len(parts)]
                  ELSE DefaultRepo
         ELSE DefaultRepo

GitOutcomes ==
    {[kind |-> "exception", returncode |-> 0, stdout |-> ""],
     [kind |-> "ran", returncode |-> 128, stdout |-> ""],
     [kind |-> "ran", returncode |-> 0, stdout |-> "https://github.com/acme/shop.git\n"],
     [kind |-> "ran", returncode |-> 0, stdout |-> "https://gitlab.com/acme/shop.git\n"],
     [kind |-> "ran", returncode |-> 0, stdout |-> "github.com\n"]}

\* os.getenv('GITHUB_TOKEN'): unset, set to the empty string, set
Tokens == {None, "", "ghp_t"}

Clock == {"2025-01-01T10:00:00"}

----------------------------------------------------------------------------
(* create_mock_analysis *)

MkTask(n, t, ls, p, c, s, a, u) ==
    [issue_number |-> n, title |-> t, labels |-> ls, priority |-> p,
     complexity |-> c, readiness_score |-> s, assignee |-> a, url |-> u]

create_mock_analysis ==
    [timestamp |-> now,
     repository |-> repo,
     total_issues |-> 2,
     ai_ready_tasks |->
        << MkTask(154, "Flipping Securify endpoints",
                  {"bug", "high priority", "internal"}, "high", "medium", 85, None,
                  "https://github.com/" \o repo \o "/issues/154"),
           MkTask(151, "Fake data from demo store for first time install over the dashboard",
                  {"enhancement", "high priority"}, "high", "low", 90, None,
                  "https://github.com/" \o repo \o "/issues/151") >>,
     priority_distribution |-> [high |-> 2, medium |-> 0, low |-> 0],
     complexity_distribution |-> [low |-> 1, medium |-> 1, high |-> 0, unknown |-> 0]]

----------------------------------------------------------------------------
(* analyze_issues *)

\* the dict of lines 61-68
NewAnalysis(iss) ==
    [timestamp |-> now,
     repository |-> repo,
     total_issues |-> Len(iss),
     ai_ready_tasks |-> <<>>,
     priority_distribution |-> [high |-> 0, medium |-> 0, low |-> 0],
     complexity_distribution |-> [low |-> 0, medium |-> 0, high |-> 0, unknown |-> 0]]

\* the task dict of lines 75-84
TaskOf(issue, labels) ==
    MkTask(issue.number, issue.title, labels,
           extract_priority(labels), extract_complexity(labels),
           calculate_readiness_score(issue, labels),
           IF HasAssignee(issue) THEN issue.assignee.login ELSE None,
           issue.html_url)

\* building the task raises KeyError when 'number', 'title' or 'html_url' is absent
TaskRaises(issue, labels) == is_ai_ready(issue, labels) /\ ~issue.has_keys

\* one pass through the loop body, lines 71-92
LoopBody(a, issue) ==
    LET labels == LowerLabels(issue)
        tasks  == IF is_ai_ready(issue, labels)
                  THEN Append(a.ai_ready_tasks, TaskOf(issue, labels))
                  ELSE a.ai_ready_tasks
        priority   == extract_priority(labels)
        complexity == extract_complexity(labels)
    IN  [a EXCEPT !.ai_ready_tasks = tasks,
                  !.priority_distribution[priority] = @ + 1,
                  !.complexity_distribution[complexity] = @ + 1]

\* key=lambda x: x['readiness_score'], reverse=True
ComesBefore(x, y) == x.readiness_score >= y.readiness_score

RECURSIVE InsertSorted(_, _)
\* put x behind every element that may stay in front of it (stable)
InsertSorted(sorted, x) ==
    IF sorted = <<>> THEN <<x>>
    ELSE IF ComesBefore(Head(sorted), x) THEN <<Head(sorted)>> \o InsertSorted(Tail(sorted), x)
    ELSE <<x>> \o sorted

RECURSIVE SortTasks(_)
\* list.sort(key=..., reverse=True)
SortTasks(tasks) ==
    IF tasks = <<>> THEN <<>>
    ELSE InsertSorted(SortTasks(SubSeq(tasks, 1, Len(tasks) - 1)), tasks[Len(tasks)])

----------------------------------------------------------------------------
(* analyze_projects, one run of the script *)

\* value of `analysis' and `result' before they are assigned
NoAnalysis ==
    [timestamp |-> "", repository |-> "", total_issues |-> 0, ai_ready_tasks |-> <<>>,
     priority_distribution |-> [high |-> 0, medium |-> 0, low |-> 0],
     complexity_distribution |-> [low |-> 0, medium |-> 0, high |-> 0, unknown |-> 0]]

\* `if not self.github_token'
TokenMissing == github_token = None \/ github_token = ""

\* variant: every status below 400 is taken for a success
StatusOK_Below400(st) == st < 400

\* `if response.status_code == 200'
StatusOK(st) == st = 200

\* __init__ has run, analyze_projects is about to be called
AnalyzerInit ==
    /\ github_token \in Tokens
    /\ \E git \in GitOutcomes : repo = detect_repository(git)
    /\ now \in Clock
    /\ pc = "start"
    /\ status_code = 0
    /\ raised = FALSE
    /\ requests_made = 0
    /\ issues = <<>>
    /\ idx = 0
    /\ analysis = NoAnalysis
    /\ result = NoAnalysis

\* return self.create_mock_analysis()
ReturnMock ==
    /\ result' = create_mock_analysis
    /\ pc' = "done"

\* lines 37-39
CheckToken ==
    /\ pc = "start"
    /\ IF TokenMissing
       THEN ReturnMock
       ELSE pc' = "request" /\ UNCHANGED result
    /\ UNCHANGED <<github_token, repo, now, status_code, raised, requests_made,
                   issues, idx, analysis>>
    /\ UNCHANGED evars

\* line 46 raises (connection error, timeout ...): lines 55-57
RequestRaises ==
    /\ pc = "request"
    /\ requests_made' = requests_made + 1
    /\ raised' = TRUE
    /\ ReturnMock
    /\ UNCHANGED <<github_token, repo, now, status_code, issues, idx, analysis>>
    /\ UNCHANGED evars

\* line 46 returns a response; lines 48-53 up to the call of analyze_issues
RequestResponds ==
    /\ pc = "request"
    /\ requests_made' = requests_made + 1
    /\ \E st \in StatusCodes :
          /\ status_code' = st
          /\ IF StatusOK(st)
             THEN \/ \* response.json() raises
                     /\ raised' = TRUE
                     /\ ReturnMock
                     /\ UNCHANGED <<issues, idx, analysis>>
                  \/ \E payload \in Payloads :
                        /\ issues' = payload
                        /\ analysis' = NewAnalysis(payload)
                        /\ idx' = 1
                        /\ pc' = "analyze"
                        /\ UNCHANGED <<raised, result>>
             ELSE /\ ReturnMock
                  /\ UNCHANGED <<raised, issues, idx, analysis>>
    /\ UNCHANGED <<github_token, repo, now>>
    /\ UNCHANGED evars

\* one iteration of `for issue in issues', lines 70-92
AnalyzeIssue ==
    /\ pc = "analyze"
    /\ idx <= Len(issues)
    /\ LET issue == issues[idx]
       IN  IF TaskRaises(issue, LowerLabels(issue))
           THEN /\ raised' = TRUE
                /\ ReturnMock
                /\ UNCHANGED <<idx, analysis>>
           ELSE /\ analysis' = LoopBody(analysis, issue)
                /\ idx' = idx + 1
                /\ UNCHANGED <<raised, result, pc>>
    /\ UNCHANGED <<github_token, repo, now, status_code, requests_made, issues>>
    /\ UNCHANGED evars

\* lines 94-97 and the return of line 50
SortAndReturn ==
    /\ pc = "analyze"
    /\ idx > Len(issues)
    /\ analysis' = [analysis EXCEPT !.ai_ready_tasks = SortTasks(@)]
    /\ result' = analysis'
    /\ pc' = "done"
    /\ UNCHANGED <<github_token, repo, now, status_code, raised, requests_made,
                   issues, idx>>
    /\ UNCHANGED evars

----------------------------------------------------------------------------
(* CodebaseEnhancer: text primitives *)

\* the text at position i of s is k
StartsWithAt(s, i, k) == i + Len(k) - 1 <= Len(s) /\ SubSeq(s, i, i + Len(k) - 1) = k

\* `^' under re.MULTILINE
AtLineStart(s, i) == i = 1 \/ SubSeq(s, i - 1, i - 1) = "\n"

Letters == {"a", "b", "c", "d", "e", "f", "g", "h", "i", "j", "k", "l", "m",
            "n", "o", "p", "q", "r", "s", "t", "u", "v", "w", "x", "y", "z",
            "A", "B", "C", "D", "E", "F", "G", "H", "I", "J", "K", "L", "M",
            "N", "O", "P", "Q", "R", "S", "T", "U", "V", "W", "X", "Y", "Z"}
Digits == {"0", "1", "2", "3", "4", "5", "6", "7", "8", "9"}

\* \w
IsWordChar(c) == c \in Letters \cup Digits \cup {"_"}
\* [\w\\]
IsDepChar(c) == IsWordChar(c) \/ c = "\\"

\* end of the longest run of \s starting at i: first position that is not a space
SkipSpace(s, i) ==
    LET stops == {k \in i..Len(s) : ~IsSpace(SubSeq(s, k, k))}
    IN  IF stops = {} THEN Len(s) + 1 ELSE CHOOSE k \in stops : \A m \in stops : k <= m

SkipWord(s, i) ==
    LET stops == {k \in i..Len(s) : ~IsWordChar(SubSeq(s, k, k))}
    IN  IF stops = {} THEN Len(s) + 1 ELSE CHOOSE k \in stops : \A m \in stops : k <= m

SkipDep(s, i) ==
    LET stops == {k \in i..Len(s) : ~IsDepChar(SubSeq(s, k, k))}
    IN  IF stops = {} THEN Len(s) + 1 ELSE CHOOSE k \in stops : \A m \in stops : k <= m

\* \b at position i (between s[i-1] and s[i])
WordBoundary(s, i) ==
    LET before == i > 1 /\ IsWordChar(SubSeq(s, i - 1, i - 1))
        after  == i <= Len(s) /\ IsWordChar(SubSeq(s, i, i))
    IN  before # after

RECURSIVE JoinWith(_, _)
\* sep.join(parts)
JoinWith(parts, sep) ==
    IF parts = <<>> THEN ""
    ELSE IF Len(parts) = 1 THEN parts[1]
    ELSE parts[1] \o sep \o JoinWith(Tail(parts), sep)

\* parts[:n]
FirstN(parts, n) == SubSeq(parts, 1, IF Len(parts) < n THEN Len(parts) ELSE n)

\* len(content.splitlines()), for text whose only line break is \n
LineCount(content) ==
    Cardinality({i \in 1..Len(content) : SubSeq(content, i, i) = "\n"})
        + (IF Len(content) > 0 /\ SubSeq(content, Len(content), Len(content)) # "\n"
           THEN 1 ELSE 0)

RECURSIVE IntToStr(_)
IntToStr(n) ==
    LET d == <<"0", "1", "2", "3", "4", "5", "6", "7", "8", "9">>
    IN  IF n < 10 THEN d[n + 1] ELSE IntToStr(n \div 10) \o d[(n % 10) + 1]

----------------------------------------------------------------------------
(* CodebaseEnhancer: the regular expressions of analyze_php_file *)

RECURSIVE FindClasses(_, _)
\* re.findall(r'class\s+(\w+)', content), scanning from position i
FindClasses(s, i) ==
    IF i > Len(s) THEN <<>>
    ELSE IF StartsWithAt(s, i, "class")
         THEN LET j == SkipSpace(s, i + 5)
                  e == SkipWord(s, j)
              IN  IF j > i + 5 /\ e > j
                  THEN <<SubSeq(s, j, e - 1)>> \o FindClasses(s, e)
                  ELSE FindClasses(s, i + 1)
         ELSE FindClasses(s, i + 1)

RECURSIVE FindMethods(_, _)
\* re.findall(r'public\s+function\s+(\w+)', content)
FindMethods(s, i) ==
    IF i > Len(s) THEN <<>>
    ELSE IF StartsWithAt(s, i, "public")
         THEN LET j == SkipSpace(s, i + 6)
                  k == SkipSpace(s, j + 8)
                  e == SkipWord(s, k)
              IN  IF j > i + 6 /\ StartsWithAt(s, j, "function") /\ k > j + 8 /\ e > k
                  THEN <<SubSeq(s, k, e - 1)>> \o FindMethods(s, e)
                  ELSE FindMethods(s, i + 1)
         ELSE FindMethods(s, i + 1)

RECURSIVE FindDependencies(_, _)
\* re.findall(r'use\s+([\w\\\\]+)', content)
FindDependencies(s, i) ==
    IF i > Len(s) THEN <<>>
    ELSE IF StartsWithAt(s, i, "use")
         THEN LET j == SkipSpace(s, i + 3)
                  e == SkipDep(s, j)
              IN  IF j > i + 3 /\ e > j
                  THEN <<SubSeq(s, j, e - 1)>> \o FindDependencies(s, e)
                  ELSE FindDependencies(s, i + 1)
         ELSE FindDependencies(s, i + 1)

RECURSIVE CountFunctions(_, _)
\* len(re.findall(r'function\s+\w+', content))
CountFunctions(s, i) ==
    IF i > Len(s) THEN 0
    ELSE IF StartsWithAt(s, i, "function")
         THEN LET j == SkipSpace(s, i + 8)
                  e == SkipWord(s, j)
              IN  IF j > i + 8 /\ e > j
                  THEN 1 + CountFunctions(s, e)
                  ELSE CountFunctions(s, i + 1)
         ELSE CountFunctions(s, i + 1)

RECURSIVE CountKeywordCalls(_, _, _, _)
\* len(re.findall(r'\b(kw1|kw2|...)\s*<open>', content)): kws in the order of
\* the alternation, open is "(" or "{"
CountKeywordCalls(s, i, kws, open) ==
    IF i > Len(s) THEN 0
    ELSE LET fits(n) == /\ WordBoundary(s, i)
                        /\ StartsWithAt(s, i, kws[n])
                        /\ StartsWithAt(s, SkipSpace(s, i + Len(kws[n])), open)
             hits == {n \in 1..Len(kws) : fits(n)}
         IN  IF hits = {} THEN CountKeywordCalls(s, i + 1, kws, open)
             ELSE LET n == CHOOSE h \in hits : \A m \in hits : h <= m
                  IN  1 + CountKeywordCalls(s, SkipSpace(s, i + Len(kws[n])) + 1, kws, open)

estimate_complexity(content) ==
    LET lines == LineCount(content)
        method_count == CountFunctions(content, 1)
        if_count     == CountKeywordCalls(content, 1, <<"if">>, "(")
        loop_count   == CountKeywordCalls(content, 1, <<"for", "while", "foreach">>, "(")
        try_count    == CountKeywordCalls(content, 1, <<"try">>, "{")
        complexity_score == (method_count * 2) + if_count + (loop_count * 2) + (try_count * 3)
    IN  IF lines < 50 /\ complexity_score < 10 THEN "Low"
        ELSE IF lines < 200 /\ complexity_score < 30 THEN "Medium"
        ELSE "High"

MkType(l, d) == [layer |-> l, description |-> d]

determine_file_type(file_path) ==
    LET path_str == Lower(file_path)
    IN  IF IsSub("controller", path_str)
            THEN MkType("Controller", "HTTP request handling and business logic coordination")
        ELSE IF IsSub("model", path_str)
            THEN MkType("Model", "Data model and database interaction")
        ELSE IF IsSub("helper", path_str)
            THEN MkType("Helper", "Utility functions and business logic support")
        ELSE IF IsSub("service", path_str)
            THEN MkType("Service", "Business service and external API integration")
        ELSE IF IsSub("job", path_str)
            THEN MkType("Job", "Background job processing and queued tasks")
        ELSE IF IsSub("middleware", path_str)
            THEN MkType("Middleware", "Request/response filtering and processing")
        ELSE IF IsSub("provider", path_str)
            THEN MkType("Provider", "Service provider and dependency injection")
        ELSE IF IsSub("command", path_str)
            THEN MkType("Command", "Artisan console command")
        ELSE MkType("Utility", "General utility and support functions")

analyze_php_file(content, file_path) ==
    LET lower == Lower(content)
    IN  [file_type    |-> determine_file_type(file_path),
         classes      |-> FindClasses(content, 1),
         methods      |-> FindMethods(content, 1),
         dependencies |-> FindDependencies(content, 1),
         patterns     |->
            [database    |-> \E k \in {"Model", "DB::", "Eloquent"} : IsSub(k, content),
             api         |-> \E k \in {"Request", "Response", "Controller"} : IsSub(k, content),
             shopify     |-> \E k \in {"shopify", "shop::"} : IsSub(k, lower),
             geolocation |-> \E k \in {"geoip", "country", "location", "ip"} : IsSub(k, lower)],
         complexity   |-> estimate_complexity(content),
         line_count   |-> LineCount(content)]

----------------------------------------------------------------------------
(* CodebaseEnhancer: generate_ai_header *)

\* Path(p).stem: the last component without its suffix
Stem(path) ==
    LET parts == Split(path, "/")
        name  == parts[Len(parts)]
        dots  == {i \in 2..Len(name) : SubSeq(name, i, i) = "."}
    IN  IF dots = {} THEN name
        ELSE SubSeq(name, 1, (CHOOSE d \in dots : \A m \in dots : m <= d) - 1)

\* the test files present in the working directory
TestFiles == {"tests/Unit/ShopTest.php"}

find_test_file(source_file) ==
    LET class_name == Stem(source_file)
        possible_test_paths ==
            <<"tests/Feature/" \o class_name \o "Test.php",
              "tests/Unit/" \o class_name \o "Test.php",
              "tests/Feature/Http/Controllers/" \o class_name \o "Test.php">>
        found == {n \in 1..3 : possible_test_paths[n] \in TestFiles}
    IN  IF found = {} THEN "No corresponding test file found"
        ELSE possible_test_paths[CHOOSE n \in found : \A m \in found : n <= m]

identify_integration_points(a) ==
    LET points == (IF a.patterns.shopify THEN <<"Shopify API">> ELSE <<>>)
               \o (IF a.patterns.geolocation THEN <<"Geolocation services">> ELSE <<>>)
               \o (IF a.patterns.database THEN <<"Database layer">> ELSE <<>>)
               \o (IF a.patterns.api THEN <<"REST API endpoints">> ELSE <<>>)
    IN  IF points # <<>> THEN JoinWith(points, ", ") ELSE "Internal business logic"

assess_security_relevance(a) ==
    IF a.patterns.api
        THEN "High - API endpoints require authentication and input validation"
    ELSE IF a.patterns.database
        THEN "Medium - Database operations require SQL injection protection"
    ELSE IF a.patterns.shopify
        THEN "High - Shopify integration requires webhook validation and secure tokens"
    ELSE "Standard - Follow general security practices"

assess_performance_relevance(a) ==
    IF a.patterns.database
        THEN "Database queries should be optimized and use appropriate indexing"
    ELSE IF a.patterns.api
        THEN "API responses should be cached when appropriate"
    ELSE IF a.patterns.geolocation
        THEN "Geolocation lookups should be cached to avoid service limits"
    ELSE "Standard performance considerations apply"

\* datetime.now().strftime('%Y-%m-%d') on day number d
Dates == <<"2025-01-01", "2025-01-02">>
Days == 1..Len(Dates)
get_current_date(d) == Dates[d]

generate_ai_header(a, file_path, d) ==
    LET pattern_descriptions ==
               (IF a.patterns.database THEN <<"Database interactions">> ELSE <<>>)
            \o (IF a.patterns.api THEN <<"API endpoint handling">> ELSE <<>>)
            \o (IF a.patterns.shopify THEN <<"Shopify integration">> ELSE <<>>)
            \o (IF a.patterns.geolocation THEN <<"Geolocation services">> ELSE <<>>)
        test_file == find_test_file(file_path)
    IN  "// AGENT_ENHANCED: Comprehensive AI context auto-generated\n"
     \o "// AGENT_MODULE: " \o a.file_type.description \o "\n"
     \o "// AGENT_LAYER: " \o a.file_type.layer \o "\n"
     \o "// AGENT_COMPLEXITY: " \o a.complexity \o " (" \o IntToStr(a.line_count)
            \o " lines, " \o IntToStr(Len(a.methods)) \o " methods)\n"
     \o "// AGENT_DEPENDENCIES: "
            \o (IF a.dependencies # <<>> THEN JoinWith(FirstN(a.dependencies, 5), ", ")
                ELSE "None detected") \o "\n"
     \o "// AGENT_PATTERNS: "
            \o (IF pattern_descriptions # <<>> THEN JoinWith(pattern_descriptions, ", ")
                ELSE "Standard business logic") \o "\n"
     \o "// AGENT_CLASSES: "
            \o (IF a.classes # <<>> THEN JoinWith(a.classes, ", ") ELSE "No classes") \o "\n"
     \o "// AGENT_PUBLIC_METHODS: "
            \o (IF a.methods # <<>> THEN JoinWith(FirstN(a.methods, 5), ", ")
                ELSE "No public methods") \o "\n"
     \o "// AGENT_TEST_COVERAGE: "
            \o (IF test_file # "" THEN test_file ELSE "No test file found") \o "\n"
     \o "// AGENT_RECENT_CHANGES: Enhanced for AI agent context ("
            \o get_current_date(d) \o ")\n"
     \o "// AGENT_MAINTENANCE_NOTES: Auto-generated AI context - update when major changes occur\n"
     \o "// AGENT_INTEGRATION_POINTS: " \o identify_integration_points(a) \o "\n"
     \o "// AGENT_SECURITY_CONTEXT: " \o assess_security_relevance(a) \o "\n"
     \o "// AGENT_PERFORMANCE_NOTES: " \o assess_performance_relevance(a)

\* the f-string of enhance_config_file
config_header(file_path, d) ==
       "<?php\n\n"
    \o "// AGENT_ENHANCED: Configuration file with AI context\n"
    \o "// AGENT_MODULE: Application configuration for " \o Stem(file_path) \o "\n"
    \o "// AGENT_LAYER: Configuration\n"
    \o "// AGENT_PURPOSE: System configuration and environment-specific settings\n"
    \o "// AGENT_SECURITY_NOTE: Contains sensitive configuration - review before committing\n"
    \o "// AGENT_RECENT_CHANGES: Enhanced for AI agent context (" \o get_current_date(d) \o ")\n"
    \o "\n"

----------------------------------------------------------------------------
(* re.sub: the replacement template and the substitution *)

\* first backslash of t, 0 when there is none
FirstBackslash(t) ==
    LET at == {i \in 1..Len(t) : SubSeq(t, i, i) = "\\"}
    IN  IF at = {} THEN 0 ELSE CHOOSE i \in at : \A m \in at : i <= m

RECURSIVE TemplateOK(_, _)
\* the template compiles: every backslash starts an escape re accepts.
\* groups: number of groups of the pattern.  Octal escapes, \g<..> and
\* two-digit group numbers are rejected here; the modelled files have none.
TemplateOK(t, groups) ==
    LET i == FirstBackslash(t)
    IN  IF i = 0 THEN TRUE
        ELSE IF i = Len(t) THEN FALSE
        ELSE LET c == SubSeq(t, i + 1, i + 1)
                 rest == SubSeq(t, i + 2, Len(t))
             IN  IF c \in {"n", "t", "r", "f", "a", "b", "v", "\\"} THEN TemplateOK(rest, groups)
                 ELSE IF c \in Digits THEN c = "1" /\ groups >= 1 /\ TemplateOK(rest, groups)
                 ELSE IF c \in Letters THEN FALSE
                 ELSE TemplateOK(rest, groups)

RECURSIVE ExpandTemplate(_, _)
\* match.expand(template) where group 1 is g1 (\a, \b, \v give a form feed here)
ExpandTemplate(t, g1) ==
    LET i == FirstBackslash(t)
    IN  IF i = 0 THEN t
        ELSE LET c == SubSeq(t, i + 1, i + 1)
                 pre == SubSeq(t, 1, i - 1)
                 rest == SubSeq(t, i + 2, Len(t))
             IN  pre \o (CASE c = "n" -> "\n" [] c = "t" -> "\t" [] c = "r" -> "\r"
                           [] c \in {"f", "a", "b", "v"} -> "\f"
                           [] c = "\\" -> "\\"
                           [] c = "1" -> g1
                           [] OTHER -> "\\" \o c)
                     \o ExpandTemplate(rest, g1)

RECURSIVE SubTag(_, _, _)
\* re.sub(r'^(<\?php\s*)', template, s, flags=re.MULTILINE) from position i on:
\* every `<?php' at the start of a line, with the white space behind it, is
\* replaced by the expanded template
SubTag(s, i, template) ==
    IF i > Len(s) THEN ""
    ELSE IF AtLineStart(s, i) /\ StartsWithAt(s, i, "<?php")
         THEN LET e == SkipSpace(s, i + 5)
              IN  ExpandTemplate(template, SubSeq(s, i, e - 1)) \o SubTag(s, e, template)
         ELSE SubSeq(s, i, i) \o SubTag(s, i + 1, template)

----------------------------------------------------------------------------
(* enhance_php_file and enhance_config_file on one file *)

Sentinel == "AGENT_ENHANCED"

\* what one call does: the file's new content, whether write_text ran,
\* whether the path was logged, the analysis stored (if any), whether the
\* except clause was reached
Outcome(c, w, l, a, r) ==
    [content |-> c, wrote |-> w, logged |-> l, analysed |-> a, raised |-> r]

NoEntry == <<>>    \* no analysis stored

\* the replacement of lines 55-60: rf'\1\n{ai_header}\n'
PhpTemplate(ai_header) == "\\1\\n" \o ai_header \o "\\n"

\* variant: no check for the sentinel
enhance_php_file_NoSkip(file, file_path, d) ==
    IF file.mode = "unreadable"
        THEN Outcome(file.content, FALSE, FALSE, NoEntry, TRUE)
    ELSE LET a == analyze_php_file(file.content, file_path)
             template == PhpTemplate(generate_ai_header(a, file_path, d))
         IN  IF ~TemplateOK(template, 1)
                 THEN Outcome(file.content, FALSE, FALSE, <<a>>, TRUE)
             ELSE IF file.mode = "readonly"
                 THEN Outcome(file.content, FALSE, FALSE, <<a>>, TRUE)
             ELSE Outcome(SubTag(file.content, 1, template), TRUE, TRUE, <<a>>, FALSE)

\* variant: the path is logged before write_text is called
enhance_php_file_LogFirst(file, file_path, d) ==
    IF file.mode = "unreadable"
        THEN Outcome(file.content, FALSE, FALSE, NoEntry, TRUE)
    ELSE IF IsSub(Sentinel, file.content)
        THEN Outcome(file.content, FALSE, FALSE, NoEntry, FALSE)
    ELSE LET a == analyze_php_file(file.content, file_path)
             template == PhpTemplate(generate_ai_header(a, file_path, d))
         IN  IF ~TemplateOK(template, 1)
                 THEN Outcome(file.content, FALSE, FALSE, <<a>>, TRUE)
             ELSE IF file.mode = "readonly"
                 THEN Outcome(file.content, FALSE, TRUE, <<a>>, TRUE)
             ELSE Outcome(SubTag(file.content, 1, template), TRUE, TRUE, <<a>>, FALSE)

enhance_php_file(file, file_path, d) ==
    IF file.mode = "unreadable"                       \* read_text raises
        THEN Outcome(file.content, FALSE, FALSE, NoEntry, TRUE)
    ELSE IF IsSub(Sentinel, file.content)             \* skip if already enhanced
        THEN Outcome(file.content, FALSE, FALSE, NoEntry, FALSE)
    ELSE LET a == analyze_php_file(file.content, file_path)
             template == PhpTemplate(generate_ai_header(a, file_path, d))
         IN  IF ~TemplateOK(template, 1)              \* re.sub raises re.error
                 THEN Outcome(file.content, FALSE, FALSE, <<a>>, TRUE)
             ELSE IF file.mode = "readonly"           \* write_text raises
                 THEN Outcome(file.content, FALSE, FALSE, <<a>>, TRUE)
             ELSE Outcome(SubTag(file.content, 1, template), TRUE, TRUE, <<a>>, FALSE)

enhance_config_file(file, file_path, d) ==
    IF file.mode = "unreadable"
        THEN Outcome(file.content, FALSE, FALSE, NoEntry, TRUE)
    ELSE IF IsSub(Sentinel, file.content)
        THEN Outcome(file.content, FALSE, FALSE, NoEntry, FALSE)
    ELSE LET template == config_header(file_path, d)
         IN  IF ~TemplateOK(template, 0)
                 THEN Outcome(file.content, FALSE, FALSE, NoEntry, TRUE)
             ELSE IF file.mode = "readonly"
                 THEN Outcome(file.content, FALSE, FALSE, NoEntry, TRUE)
             ELSE Outcome(SubTag(file.content, 1, template), TRUE, TRUE, NoEntry, FALSE)

----------------------------------------------------------------------------
(* The workspace *)

AllPhpPaths == <<"app/Http/Controllers/ShopController.php", "app/Models/Shop.php",
                 "app/Helpers/GeoHelper.php">>
PhpPaths    == SubSeq(AllPhpPaths, 1, MaxPhpFiles)
ConfigPaths == <<"config/app.php">>
Paths == {PhpPaths[n] : n \in 1..Len(PhpPaths)} \cup {ConfigPaths[n] : n \in 1..Len(ConfigPaths)}

File(c, m) == [content |-> c, mode |-> m]

PlainPhp    == "<?php\nclass Shop {}\n"
UsesPhp     == "<?php\nuse App\\Models\\Shop;\n"
TwoTagsPhp  == "<html>\n<?php echo 1; ?>\n<?php echo 2; ?>\n"
InlinePhp   == "<html><?php echo 1; ?>"
EnhancedPhp == "<?php\n// AGENT_ENHANCED: Comprehensive AI context auto-generated\nclass Shop {}\n"

PhpFileChoices ==
    {File(c, "rw") : c \in {PlainPhp, UsesPhp, TwoTagsPhp, InlinePhp, EnhancedPhp}}
        \cup {File(PlainPhp, "unreadable"), File(PlainPhp, "readonly")}

ConfigFileChoices ==
    {File("<?php\n\nreturn [];\n", "rw"), File("return [];\n", "rw"),
     File("<?php\n\nreturn [];\n", "readonly"),
     File("<?php\n\n// AGENT_ENHANCED: Configuration file with AI context\nreturn [];\n", "rw")}

IsPhpPath(p) == \E n \in 1..Len(PhpPaths) : PhpPaths[n] = p

Workspaces ==
    {w \in [Paths -> PhpFileChoices \cup ConfigFileChoices] :
        \A p \in Paths : IF IsPhpPath(p) THEN w[p] \in PhpFileChoices
                         ELSE w[p] \in ConfigFileChoices}

----------------------------------------------------------------------------
(* enhance_all_files, runs of the enhancer script *)

NoReport == [date |-> "", files |-> 0, total_files |-> 0, enhancement_log |-> <<>>]

EmptyDict == [p \in {} |-> NoEntry]

\* no enhancer process exists yet
EnhancerInit ==
    /\ fs \in Workspaces
    /\ original = fs
    /\ today = 1
    /\ epc = "idle"
    /\ runs = 0
    /\ interrupted = 0
    /\ php_files = <<>>
    /\ config_files = <<>>
    /\ fidx = 0
    /\ enhancement_log = <<>>
    /\ file_analysis = EmptyDict
    /\ failed = {}
    /\ writes = <<>>
    /\ changes = [p \in Paths |-> 0]
    /\ context_map = NoReport
    /\ report = NoReport

\* CodebaseEnhancer() and lines 17-20
StartRun ==
    /\ epc \in {"idle", "finished"}
    /\ runs < MaxRuns
    /\ runs' = runs + 1
    /\ enhancement_log' = <<>>
    /\ file_analysis' = EmptyDict
    /\ failed' = {}
    /\ writes' = <<>>
    /\ php_files' = PhpPaths
    /\ config_files' = <<>>
    /\ fidx' = 1
    /\ epc' = "php"
    /\ UNCHANGED <<fs, original, today, interrupted, changes, context_map, report>>
    /\ UNCHANGED avars

\* enhance_php_file and enhance_config_file on the files of the workspaces,
\* computed once; a file outside the table is computed on the spot
EnhancePhpTable ==
    [f \in PhpFileChoices, q \in Paths, d \in Days |-> enhance_php_file(f, q, d)]

EnhanceConfigTable ==
    [f \in ConfigFileChoices, q \in Paths, d \in Days |-> enhance_config_file(f, q, d)]

EnhancePhp(file, file_path, d) ==
    IF file \in PhpFileChoices THEN EnhancePhpTable[file, file_path, d]
    ELSE enhance_php_file(file, file_path, d)

EnhanceConfig(file, file_path, d) ==
    IF file \in ConfigFileChoices THEN EnhanceConfigTable[file, file_path, d]
    ELSE enhance_config_file(file, file_path, d)

\* the effect of one enhance_*_file call on the enhancer's state
Apply(path, out) ==
    /\ fs' = [fs EXCEPT ![path].content = out.content]
    /\ changes' = [changes EXCEPT ![path] = IF out.content # fs[path].content THEN @ + 1 ELSE @]
    /\ writes' = IF out.wrote THEN Append(writes, path) ELSE writes
    /\ enhancement_log' = IF out.logged THEN Append(enhancement_log, path) ELSE enhancement_log
    /\ file_analysis' = IF out.analysed # NoEntry
                        THEN [p \in DOMAIN file_analysis \cup {path} |->
                                 IF p = path THEN out.analysed ELSE file_analysis[p]]
                        ELSE file_analysis
    /\ failed' = IF out.raised THEN failed \cup {path} ELSE failed

\* the clock is read: the day is the last one seen or a later one
ReadClock(d) == d \in Days /\ d >= today /\ today' = d

\* one iteration of the loop of lines 21-23
EnhancePhpFile ==
    /\ epc = "php"
    /\ fidx <= Len(php_files)
    /\ \E d \in Days :
          /\ ReadClock(d)
          /\ Apply(php_files[fidx], EnhancePhp(fs[php_files[fidx]], php_files[fidx], d))
    /\ fidx' = fidx + 1
    /\ UNCHANGED <<original, epc, runs, interrupted, php_files, config_files,
                   context_map, report>>
    /\ UNCHANGED avars

\* line 26
ListConfigFiles ==
    /\ epc = "php"
    /\ fidx > Len(php_files)
    /\ config_files' = ConfigPaths
    /\ fidx' = 1
    /\ epc' = "config"
    /\ UNCHANGED <<fs, original, today, runs, interrupted, php_files, enhancement_log,
                   file_analysis, failed, writes, changes, context_map, report>>
    /\ UNCHANGED avars

\* one iteration of the loop of lines 27-28
EnhanceConfigFile ==
    /\ epc = "config"
    /\ fidx <= Len(config_files)
    /\ \E d \in Days :
          /\ ReadClock(d)
          /\ Apply(config_files[fidx],
                   EnhanceConfig(fs[config_files[fidx]], config_files[fidx], d))
    /\ fidx' = fidx + 1
    /\ UNCHANGED <<original, epc, runs, interrupted, php_files, config_files,
                   context_map, report>>
    /\ UNCHANGED avars

\* create_ai_documentation, line 31: the context map
CreateAiDocumentation ==
    /\ epc = "config"
    /\ fidx > Len(config_files)
    /\ \E d \in Days :
          /\ ReadClock(d)
          /\ context_map' = [date |-> get_current_date(d),
                             files |-> Len(enhancement_log),
                             total_files |-> Cardinality(DOMAIN file_analysis),
                             enhancement_log |-> <<>>]
    /\ epc' = "docs"
    /\ UNCHANGED <<fs, original, runs, interrupted, php_files, config_files, fidx,
                   enhancement_log, file_analysis, failed, writes, changes, report>>
    /\ UNCHANGED avars

\* generate_enhancement_report, line 34, and the end of the script
GenerateEnhancementReport ==
    /\ epc = "docs"
    /\ \E d \in Days :
          /\ ReadClock(d)
          /\ report' = [date |-> get_current_date(d),
                        files |-> Len(enhancement_log),
                        total_files |-> Cardinality(DOMAIN file_analysis),
                        enhancement_log |-> enhancement_log]
    /\ epc' = "finished"
    /\ UNCHANGED <<fs, original, runs, interrupted, php_files, config_files, fidx,
                   enhancement_log, file_analysis, failed, writes, changes, context_map>>
    /\ UNCHANGED avars

\* the process is killed between two steps; what it held in memory is gone
Interrupt ==
    /\ epc \in {"php", "config", "docs"}
    /\ interrupted' = interrupted + 1
    /\ epc' = "idle"
    /\ enhancement_log' = <<>>
    /\ file_analysis' = EmptyDict
    /\ failed' = {}
    /\ writes' = <<>>
    /\ php_files' = <<>>
    /\ config_files' = <<>>
    /\ fidx' = 0
    /\ UNCHANGED <<fs, original, today, runs, changes, context_map, report>>
    /\ UNCHANGED avars

----------------------------------------------------------------------------
(* Specifications *)

\* the analyzer is not running
AnalyzerIdle ==
    /\ github_token = None
    /\ repo = DefaultRepo
    /\ now = ""
    /\ pc = "idle"
    /\ status_code = 0
    /\ raised = FALSE
    /\ requests_made = 0
    /\ issues = <<>>
    /\ idx = 0
    /\ analysis = NoAnalysis
    /\ result = NoAnalysis

\* the enhancer is not running, on an empty workspace
EnhancerIdle ==
    /\ fs = [p \in Paths |-> File("", "rw")]
    /\ original = fs
    /\ today = 1
    /\ epc = "off"
    /\ runs = 0
    /\ interrupted = 0
    /\ php_files = <<>>
    /\ config_files = <<>>
    /\ fidx = 0
    /\ enhancement_log = <<>>
    /\ file_analysis = EmptyDict
    /\ failed = {}
    /\ writes = <<>>
    /\ changes = [p \in Paths |-> 0]
    /\ context_map = NoReport
    /\ report = NoReport

\* one run of github_projects_analyzer.py
Init == AnalyzerInit /\ EnhancerIdle

Next ==
    \/ CheckToken
    \/ RequestRaises
    \/ RequestResponds
    \/ AnalyzeIssue
    \/ SortAndReturn

Spec == Init /\ [][Next]_vars

\* runs of enhance_codebase.py on one workspace
InitEnhancer == EnhancerInit /\ AnalyzerIdle

NextEnhancer ==
    \/ StartRun
    \/ EnhancePhpFile
    \/ ListConfigFiles
    \/ EnhanceConfigFile
    \/ CreateAiDocumentation
    \/ GenerateEnhancementReport
    \/ Interrupt

SpecEnhancer == InitEnhancer /\ [][NextEnhancer]_vars

\* one of the two scripts is run
InitScripts == Init \/ InitEnhancer

NextScripts == Next \/ NextEnhancer

SpecScripts == InitScripts /\ [][NextScripts]_vars

----------------------------------------------------------------------------
(* Properties of the issue analyzer *)

\* the issues the loop of analyze_issues has been through
Processed == 1..(idx - 1)

\* a live analysis was returned
ReturnedLive == pc = "done" /\ result = analysis /\ result.total_issues = Len(issues)

\* the loop of analyze_issues is at issues[idx]: lines 71-84 are about to run on it
AtIssue == pc = "analyze" /\ idx <= Len(issues)

TasksOf(a) == {a.ai_ready_tasks[k] : k \in 1..Len(a.ai_ready_tasks)}

BlockingNames == {"needs discussion", "blocked", "waiting for input"}
ReadyNames    == {"good first issue", "help wanted", "bug", "ai-agent-ready"}

Blocked(issue) == LowerLabels(issue) \cap BlockingNames # {}

\* C1: an issue that carries 'needs discussion', 'blocked' or 'waiting for
\* input' is never AI-ready, whatever its other labels and its body, and no
\* task of ai_ready_tasks carries such a label.
C1_BlockedNeverReady ==
    /\ (AtIssue /\ Blocked(issues[idx])) => ~is_ai_ready(issues[idx], LowerLabels(issues[idx]))
    /\ \A t \in TasksOf(analysis) \cup TasksOf(result) : t.labels \cap BlockingNames = {}
    /\ (\A i \in Processed : Blocked(issues[i])) => analysis.ai_ready_tasks = <<>>

C1_Witness ==
    /\ ReturnedLive
    /\ Len(issues) = 1
    /\ "blocked" \in LowerLabels(issues[1])
    /\ "bug" \in LowerLabels(issues[1])
    /\ BodyLen(issues[1]) > 100
    /\ result.ai_ready_tasks = <<>>

\* what C2 says is_ai_ready answers for an issue without blocking label
ReadyRule(issue) ==
    \/ LowerLabels(issue) \cap ReadyNames # {}
    \/ (issue.body.kind = "str" /\ issue.body.len >= 101)

\* C2: without a blocking label, an issue is AI-ready exactly when it has one
\* of the four ready labels or a body of more than 100 characters (null and
\* absent bodies count as empty).
C2_ReadyRule ==
    /\ (AtIssue /\ ~Blocked(issues[idx])) =>
          (is_ai_ready(issues[idx], LowerLabels(issues[idx])) <=> ReadyRule(issues[idx]))
    /\ (\A i \in Processed : ~Blocked(issues[i])) =>
          Len(analysis.ai_ready_tasks) = Cardinality({i \in Processed : ReadyRule(issues[i])})

C2_Witness ==
    /\ ReturnedLive
    /\ Len(issues) = 1
    /\ LowerLabels(issues[1]) = {"docs"}
    /\ issues[1].body = [kind |-> "str", len |-> 101]
    /\ Len(result.ai_ready_tasks) = 1

\* C3: every readiness score, computed or emitted, lies in 0..100.
C3_ScoreRange ==
    /\ AtIssue => calculate_readiness_score(issues[idx], LowerLabels(issues[idx])) \in 0..100
    /\ \A t \in TasksOf(analysis) \cup TasksOf(result) : t.readiness_score \in 0..100

C3_Witness ==
    /\ ReturnedLive
    /\ \E t \in TasksOf(result) : t.labels = ScoreLabels /\ t.readiness_score = 100

\* the labels tried as the added label x
AddableLabels ==
    {"bug", "blocked", "needs discussion", "waiting for input",
     "good first issue", "help wanted", "ai-agent-ready", "enhancement",
     "complexity-low", "complexity-medium", "complexity-high",
     "complexity-medium-high", "high priority", "medium priority",
     "low priority", "critical", "docs", "very low priority"}

\* C4: adding one label to the label set of an issue never lowers its score.
C4_ScoreMonotone ==
    AtIssue =>
        LET L == LowerLabels(issues[idx])
            score == calculate_readiness_score(issues[idx], L)
        IN  \A x \in AddableLabels : calculate_readiness_score(issues[idx], L \cup {x}) >= score

C4_Witness ==
    /\ ReturnedLive
    /\ Len(issues) = 1
    /\ LowerLabels(issues[1]) = {"complexity-low", "bug"}
    /\ HasAssignee(issues[1])
    /\ \E t \in TasksOf(result) : t.readiness_score = 85

\* the closed form of C5
ScoreFormula(issue) ==
    LET L == LowerLabels(issue)
        B(c) == IF c THEN 1 ELSE 0
        sum == 50 + 20 * B("good first issue" \in L) + 25 * B("ai-agent-ready" \in L)
                  + 15 * B("bug" \in L) + 10 * B("enhancement" \in L)
                  + (IF "complexity-low" \in L THEN 20
                     ELSE IF "complexity-medium" \in L THEN 10 ELSE 0)
                  + 15 * B(issue.body.kind = "str" /\ issue.body.len > 200)
                  + 10 * B(issue.assignee.kind # "dict")
    IN  IF sum > 100 THEN 100 ELSE sum

\* C5: the score is min(100, 50 + the bonuses of the table); labels
\* {bug, ai-agent-ready} with an empty body and no assignee give a ready issue
\* of score 100.
C5_ScoreFormula ==
    /\ AtIssue =>
          calculate_readiness_score(issues[idx], LowerLabels(issues[idx])) = ScoreFormula(issues[idx])
    /\ (pc = "done" /\ ~raised /\ status_code = 200 /\ Len(issues) = 1) =>
          \A t \in TasksOf(result) : t.readiness_score = ScoreFormula(issues[1])
    /\ (ReturnedLive /\ Len(issues) = 1 /\ LowerLabels(issues[1]) = {"bug", "ai-agent-ready"}
            /\ BodyLen(issues[1]) = 0 /\ ~HasAssignee(issues[1])) =>
          (Len(result.ai_ready_tasks) = 1 /\ result.ai_ready_tasks[1].readiness_score = 100)

C5_Witness ==
    /\ ReturnedLive
    /\ Len(issues) = 1
    /\ LowerLabels(issues[1]) = {"bug", "ai-agent-ready"}
    /\ issues[1].body = [kind |-> "str", len |-> 0]
    /\ issues[1].assignee.kind = "null"
    /\ Len(result.ai_ready_tasks) = 1
    /\ result.ai_ready_tasks[1].readiness_score = 100

SortedDescending(tasks) ==
    \A k \in 1..(Len(tasks) - 1) : tasks[k].readiness_score >= tasks[k + 1].readiness_score

\* C6: the ai_ready_tasks of every result of analyze_projects, live or mock,
\* are in descending order of readiness_score.
C6_OutputSortedDescending == pc = "done" => SortedDescending(result.ai_ready_tasks)

\* the part of C6 that the live path keeps
C6_LiveSortedDescending == ReturnedLive => SortedDescending(result.ai_ready_tasks)

\* the fixed two-task dataset of C7
IsMockDataset(r) ==
    /\ r.total_issues = 2
    /\ Len(r.ai_ready_tasks) = 2
    /\ r.ai_ready_tasks[1].issue_number = 154
    /\ r.ai_ready_tasks[2].issue_number = 151
    /\ r.repository = repo
    /\ r.repository \in {"otpplus/securify", "acme/shop"}

Unavailable == github_token \in {None, ""} \/ status_code # 200 \/ raised

\* C7: when the token is missing, the status is not 200 or an exception was
\* raised, analyze_projects returns the mock dataset for the repository; it
\* returns a live analysis only with a token and status 200.
C7_MockFallback ==
    pc = "done" => IF Unavailable THEN IsMockDataset(result) /\ ~ReturnedLive
                   ELSE ReturnedLive /\ ~IsMockDataset(result)

C7_Witness ==
    /\ pc = "done"
    /\ github_token = "ghp_t"
    /\ status_code = 404
    /\ ~raised
    /\ repo = "acme/shop"
    /\ IsMockDataset(result)

\* what C10 says extract_complexity answers
ExactComplexity(L) ==
    IF "complexity-low" \in L THEN "low"
    ELSE IF "complexity-medium" \in L THEN "medium"
    ELSE IF "complexity-high" \in L THEN "high"
    ELSE "unknown"

\* C10: extract_complexity answers low/medium/high only for a label equal to
\* complexity-low/-medium/-high, 'unknown' otherwise, and agrees with the
\* complexity bonus of the score.
C10_ExactComplexity ==
    /\ AtIssue =>
          LET L == LowerLabels(issues[idx])
          IN  /\ extract_complexity(L) = ExactComplexity(L)
              /\ (extract_complexity(L) = "low") <=> (ComplexityBonus(L) = 20)
              /\ (extract_complexity(L) = "medium") <=> (ComplexityBonus(L) = 10)
    /\ \A t \in TasksOf(analysis) : t.complexity = ExactComplexity(t.labels)

----------------------------------------------------------------------------
(* Properties of the enhancer *)

\* the file the loop is about to hand to enhance_php_file / enhance_config_file
AtFile == (epc = "php" /\ fidx <= Len(php_files)) \/ (epc = "config" /\ fidx <= Len(config_files))
CurrentPath == IF epc = "php" THEN php_files[fidx] ELSE config_files[fidx]

\* what one run of the enhancer on day d makes of the original file at path
OnceOn(path, d) ==
    IF IsPhpPath(path) THEN EnhancePhp(original[path], path, d).content
    ELSE EnhanceConfig(original[path], path, d).content

\* number of places where k occurs in s
CountSub(k, s) == Cardinality({i \in 0..(Len(s) - Len(k)) : SubSeq(s, i + 1, i + Len(k)) = k})

\* the enhancer ran to completion at least twice in a row
RanTwice == runs >= 2 /\ interrupted = 0 /\ epc = "finished"

\* C8: enhancing a file that already contains AGENT_ENHANCED leaves the file,
\* enhancement_log and file_analysis as they were and writes nothing; two
\* complete runs leave every file as one run leaves it.
C8_SentinelNoOp ==
    [][ /\ (AtFile /\ fidx' = fidx + 1 /\ IsSub(Sentinel, fs[CurrentPath].content))
              => /\ fs' = fs
                 /\ writes' = writes
                 /\ enhancement_log' = enhancement_log
                 /\ file_analysis' = file_analysis
        /\ RanTwice' => \A p \in Paths : \E d \in Days : fs'[p].content = OnceOn(p, d)
      ]_vars

C8_Witness ==
    /\ runs = 2
    /\ interrupted = 0
    /\ epc = "php"
    /\ fidx = 2
    /\ original[PhpPaths[1]].content = PlainPhp
    /\ IsSub(Sentinel, fs[PhpPaths[1]].content)
    /\ changes[PhpPaths[1]] = 1
    /\ writes = <<>>
    /\ enhancement_log = <<>>

\* a run was killed between two files and a later run got to the end
RerunCompleted == interrupted >= 1 /\ epc = "finished"

\* C9: after an interrupted run and a complete re-run every file has the
\* content an uninterrupted run would have given it, no file was modified
\* more than once, and no file received the header twice.
C9_InterruptedRerun ==
    RerunCompleted =>
        \A p \in Paths :
            /\ \E d \in Days : fs[p].content = OnceOn(p, d)
            /\ changes[p] <= 1
            /\ CountSub(Sentinel, fs[p].content) <= CountSub(Sentinel, original[p].content) + 1

\* the part of C9 that holds: the re-run reaches the uninterrupted result and
\* modifies no file a second time
C9_RerunReachesSameContent ==
    RerunCompleted =>
        \A p \in Paths :
            /\ \E d \in Days : fs[p].content = OnceOn(p, d)
            /\ changes[p] <= 1

\* the files enhancement_log names
Logged == {enhancement_log[n] : n \in 1..Len(enhancement_log)}

\* number of lines of s that start with the opening tag
LineStartTags(s) ==
    Cardinality({i \in 1..Len(s) : AtLineStart(s, i) /\ StartsWithAt(s, i, "<?php")})

\* C11: every path in enhancement_log names a file whose content contains
\* AGENT_ENHANCED exactly once, whether or not a line of the file started with
\* the opening tag and however many such lines it had.
C11_LoggedBearsSentinelOnce ==
    \A p \in Logged : CountSub(Sentinel, fs[p].content) = 1

\* the part of C11 that holds: a logged file bears the sentinel once for each
\* line that started with the opening tag
C11_SentinelPerLineStartTag ==
    \A p \in Logged : CountSub(Sentinel, fs[p].content) = LineStartTags(original[p].content)

\* some label of L contains k
Contains(L, k) == {label \in L : IsSub(k, label)} # {}

\* what C12 says extract_priority answers
PriorityRule(L) ==
    IF Contains(L, "high priority") \/ Contains(L, "critical") THEN "high"
    ELSE IF Contains(L, "medium priority") THEN "medium"
    ELSE IF Contains(L, "low priority") THEN "low"
    ELSE "medium"

\* C12: extract_priority answers high for a label containing 'high priority'
\* or 'critical', else medium for one containing 'medium priority', else low
\* for one containing 'low priority', else medium; the answer is always one of
\* high, medium and low, and every task carries the priority of its labels.
C12_PriorityRule ==
    /\ AtIssue =>
          LET L == LowerLabels(issues[idx])
          IN  /\ extract_priority(L) = PriorityRule(L)
              /\ extract_priority(L) \in {"high", "medium", "low"}
    /\ \A t \in TasksOf(analysis) : t.priority = PriorityRule(t.labels)

C12_Witness ==
    /\ ReturnedLive
    /\ Len(issues) = 1
    /\ issues[1].labels = {"Very Low Priority", "bug"}
    /\ Len(result.ai_ready_tasks) = 1
    /\ result.ai_ready_tasks[1].priority = "low"

\* every file of the run was handled: it failed, it was enhanced and logged, or
\* it was skipped because it bears the sentinel
AllHandled == \A p \in Paths : p \in failed \/ p \in Logged \/ IsSub(Sentinel, fs[p].content)

\* both reports of the run were written from its enhancement_log
ReportsGenerated ==
    /\ context_map.files = Len(enhancement_log)
    /\ context_map.total_files = Cardinality(DOMAIN file_analysis)
    /\ report.files = Len(enhancement_log)
    /\ report.enhancement_log = enhancement_log

\* what C13 says of the states of the two scripts
FailureIsLocal ==
    /\ failed \cap Logged = {}
    /\ epc = "finished" => AllHandled /\ ReportsGenerated
    /\ requests_made <= 1
    /\ (pc = "done" /\ (raised \/ status_code \notin {0, 200})) =>
          requests_made = 1 /\ IsMockDataset(result)
    /\ (pc = "done" /\ github_token \in {None, ""}) => requests_made = 0

\* C13: a failure while reading, analysing or writing one file makes the loop
\* go on to the next file with the file and enhancement_log as they were, the
\* failed file is never in enhancement_log, and a run that had failures still
\* handles every file and writes both reports; the analyzer makes at most one
\* request per run and returns the mock dataset after a failed one.
C13_FailureIsLocal ==
    [][ /\ (AtFile /\ epc' # "idle" /\ failed' # failed)     \* a step of the loop, not a kill
              => /\ fidx' = fidx + 1
                 /\ epc' = epc
                 /\ fs' = fs
                 /\ enhancement_log' = enhancement_log
                 /\ failed' = failed \cup {CurrentPath}
        /\ FailureIsLocal'
      ]_vars

C13_Witness ==
    /\ epc = "finished"
    /\ runs = 1
    /\ interrupted = 0
    /\ original[PhpPaths[1]] = File(PlainPhp, "readonly")
    /\ failed = {PhpPaths[1]}
    /\ enhancement_log = <<PhpPaths[2], ConfigPaths[1]>>
    /\ report.enhancement_log = enhancement_log
    /\ fs[PhpPaths[1]] = original[PhpPaths[1]]

\* the analyzer's case of C13: one request, which failed, then the mock dataset
C13_RequestWitness ==
    /\ pc = "done"
    /\ raised
    /\ status_code = 0
    /\ requests_made = 1
    /\ IsMockDataset(result)

====
